---- MODULE Spec2Model ----
(***************************************************************************)
(* Relevance retrieval of AskNotes-AI: the findRelevantContext variants    *)
(* (heading match with page attribution, heading match returning a string, *)
(* keyword scoring) and the callers that feed them.                        *)
(* The session-based chat page and the PDF uploader follow at the end.     *)
(*                                                                         *)
(* Text is a sequence of one-character strings, so that trimming,          *)
(* lower-casing, splitting, substring search and the regular expressions   *)
(* are computed character by character.                                    *)
(***************************************************************************)
EXTENDS Integers, Sequences, FiniteSets, TLC

VARIABLES pdfText, pageContents, question, variant, pc, context, pages, selected, prev,
          remote, answer,
          sessions, activeSessionId, sessionDocuments, localStorage, isLoading, inFlight, uuid,
          isDragging, uploaded

\* The state of the session-based chat page and of the PDF uploader.
chatPage == <<sessions, activeSessionId, sessionDocuments, localStorage, isLoading, inFlight,
              uuid>>

uploader == <<isDragging, uploaded>>

\* The state of a call of findRelevantContext or generateAnswer.
retrieval == <<pdfText, pageContents, question, variant, pc, context, pages, selected, prev,
               remote, answer>>

vars == <<retrieval, chatPage, uploader>>

(***************************************************************************)
(* Characters and strings                                                  *)
(***************************************************************************)

\* A string literal as a sequence of its characters.
Chars(s) == [i \in 1..Len(s) |-> SubSeq(s, i, i)]

\* n copies of the character c.
Rep(c, n) == [i \in 1..n |-> c]

UpperChars == Chars("ABCDEFGHIJKLMNOPQRSTUVWXYZ")
LowerChars == Chars("abcdefghijklmnopqrstuvwxyz")
DigitChars == Chars("0123456789")

\* The bullet character U+2022, one element of a text like any other character.
Bullet == "U+2022"

Range(s) == {s[i] : i \in 1..Len(s)}

UpperSet == Range(UpperChars)
DigitSet == Range(DigitChars)
WordCharSet == UpperSet \cup Range(LowerChars) \cup DigitSet \cup {"_"}
WhitespaceSet == {" ", "\t", "\n"}

\* \s of a JavaScript regular expression, and what String.prototype.trim removes.
IsWhitespace(c) == c \in WhitespaceSet

\* \d of a JavaScript regular expression.
IsDigit(c) == c \in DigitSet

\* \w of a JavaScript regular expression.
IsWordChar(c) == c \in WordCharSet

LowerOf == [c \in UpperSet |-> LowerChars[CHOOSE i \in 1..Len(UpperChars) : UpperChars[i] = c]]

toLowerCaseChar(c) == IF c \in UpperSet THEN LowerOf[c] ELSE c

\* String.prototype.toLowerCase
toLowerCase(s) == [i \in 1..Len(s) |-> toLowerCaseChar(s[i])]

\* String.prototype.trim
isAllWhitespace(s) == \A i \in 1..Len(s) : IsWhitespace(s[i])

trim(s) ==
    IF isAllWhitespace(s) THEN <<>>
    ELSE LET lead  == CHOOSE t \in 0..(Len(s) - 1) :
                          /\ ~IsWhitespace(s[t + 1])
                          /\ \A u \in 1..t : IsWhitespace(s[u])
             trail == CHOOSE t \in 0..(Len(s) - 1) :
                          /\ ~IsWhitespace(s[Len(s) - t])
                          /\ \A u \in 0..(t - 1) : IsWhitespace(s[Len(s) - u])
         IN  SubSeq(s, lead + 1, Len(s) - trail)

\* String.prototype.substring(0, n)
substring0(s, n) == IF Len(s) > n THEN SubSeq(s, 1, n) ELSE s

\* needle occurs in hay starting at position i.
OccursAt(hay, needle, i) ==
    /\ i >= 1
    /\ i + Len(needle) - 1 <= Len(hay)
    /\ \A k \in 1..Len(needle) : hay[i + k - 1] = needle[k]

\* String.prototype.includes
includes(hay, needle) == \E i \in 1..(Len(hay) - Len(needle) + 1) : OccursAt(hay, needle, i)

\* The elements of a set of integers in ascending order.
RECURSIVE SortedSeq(_)
SortedSeq(S) ==
    IF S = {} THEN <<>>
    ELSE LET m == CHOOSE x \in S : \A y \in S : x <= y
         IN  <<m>> \o SortedSeq(S \ {m})

\* Array.prototype.join with separator sep.
RECURSIVE join(_, _)
join(parts, sep) ==
    IF parts = <<>> THEN <<>>
    ELSE IF Len(parts) = 1 THEN parts[1]
    ELSE parts[1] \o sep \o join(Tail(parts), sep)

BlankLine == <<"\n", "\n">>

(***************************************************************************)
(* Segmentation: pdfText.split(/\n\n+/).filter(p => p.trim().length > 0)   *)
(***************************************************************************)

\* Position i lies in a run of two or more newlines (a separator of the split).
InSeparator(s, i) ==
    /\ s[i] = "\n"
    /\ \/ (i > 1 /\ s[i - 1] = "\n")
       \/ (i < Len(s) /\ s[i + 1] = "\n")

\* The pieces between separators, as <<first, last>> position pairs, left to
\* right.  An empty piece (at either end of the text) is dropped by the
\* filter anyway and is not listed.
pieceStarts(s) ==
    {i \in 1..Len(s) : ~InSeparator(s, i) /\ (i = 1 \/ InSeparator(s, i - 1))}

pieceEnds(s) ==
    {j \in 1..Len(s) : ~InSeparator(s, j) /\ (j = Len(s) \/ InSeparator(s, j + 1))}

split(s) ==
    LET starts == SortedSeq(pieceStarts(s))
        ends   == SortedSeq(pieceEnds(s))
    IN  [n \in 1..Len(starts) |-> SubSeq(s, starts[n], ends[n])]

paragraphsOf(text) == SelectSeq(split(text), LAMBDA p : Len(trim(p)) > 0)

\* if (!pdfText || pdfText.trim() === '')
isBlankOnlyEmpty(text) == Len(text) = 0

isBlank(text) == Len(text) = 0 \/ trim(text) = <<>>

(***************************************************************************)
(* topicPattern, built with flag i from: a leading alternative (start of   *)
(* text, newline, digits and a dot, a bullet, a star), optional whitespace, *)
(* the search term, a word boundary, then a colon or a whitespace.         *)
(* The search term is spliced into the pattern source unescaped, so its    *)
(* characters are pattern syntax.  The model covers search terms made of   *)
(* word characters, whitespace, ':' and '"' (literals), '.' (any character *)
(* but a line terminator) and '(' (opens a group that nothing closes; the  *)
(* RegExp constructor throws a SyntaxError).                               *)
(***************************************************************************)

RegExpValid(term) == \A i \in 1..Len(term) : term[i] # "("

\* One pattern character against one subject character, under the i flag.
AtomMatches(p, c) ==
    IF p = "." THEN c # "\n"
    ELSE toLowerCaseChar(p) = toLowerCaseChar(c)

TermMatchesAt(par, term, t) ==
    /\ t + Len(term) - 1 <= Len(par)
    /\ \A k \in 1..Len(term) : AtomMatches(term[k], par[t + k - 1])

IsWordAt(par, i) == i >= 1 /\ i <= Len(par) /\ IsWordChar(par[i])

\* \b between positions i - 1 and i.
WordBoundary(par, i) == IsWordAt(par, i - 1) # IsWordAt(par, i)

\* The leading alternative can end just before position e.
PrefixEndsBefore(par, e) ==
    \/ e = 1
    \/ (e >= 2 /\ par[e - 1] \in {"\n", Bullet, "*"})
    \/ (e >= 3 /\ par[e - 1] = "." /\ IsDigit(par[e - 2]))

\* topicPattern.test(paragraph)
topicPatternTest(par, term) ==
    \E t \in 1..(Len(par) + 1) :
        /\ TermMatchesAt(par, term, t)
        /\ LET after == t + Len(term)
           IN  /\ after <= Len(par)
               /\ (par[after] = ":" \/ IsWhitespace(par[after]))
               /\ WordBoundary(par, after)
        /\ \E e \in 1..t :
               /\ PrefixEndsBefore(par, e)
               /\ \A k \in e..(t - 1) : IsWhitespace(par[k])

(***************************************************************************)
(* findRelevantContext, heading match                                      *)
(* Paragraphs are handled by their position in the paragraph list, so that *)
(* equal paragraphs at different places stay distinguishable.              *)
(***************************************************************************)

\* const searchTerm = question.toLowerCase().trim()
searchTermOf(q) == trim(toLowerCase(q))

indicesOf(seq) == [i \in 1..Len(seq) |-> i]

\* paragraphs.filter(paragraph => topicPattern.test(paragraph))
exactMatches(paragraphs, term) ==
    SelectSeq(indicesOf(paragraphs), LAMBDA i : topicPatternTest(paragraphs[i], term))

\* paragraphs.filter(paragraph => paragraph.toLowerCase().includes(searchTerm))
relatedMatches(paragraphs, term) ==
    SelectSeq(indicesOf(paragraphs), LAMBDA i : includes(toLowerCase(paragraphs[i]), term))

\* A slip that keeps the stage-2 paragraphs next to the stage-1 ones.
relevantParagraphsBoth(paragraphs, term) ==
    SelectSeq(indicesOf(paragraphs),
              LAMBDA i : \/ topicPatternTest(paragraphs[i], term)
                         \/ includes(toLowerCase(paragraphs[i]), term))

\* exactMatches if there are any, relatedMatches otherwise.
relevantParagraphs(paragraphs, term) ==
    IF Len(exactMatches(paragraphs, term)) > 0
    THEN exactMatches(paragraphs, term)
    ELSE relatedMatches(paragraphs, term)

\* A slip that reports the question as typed.
noMatchMessageRaw(q, term) ==
    Chars("No specific information found about \"") \o q \o Chars("\" in the document.")

\* `No specific information found about "${searchTerm}" in the document.`
noMatchMessage(q, term) ==
    Chars("No specific information found about \"") \o term \o Chars("\" in the document.")

PrefixLen == 100

\* The position of the first page whose text includes the first 100
\* characters of the paragraph; 0 when there is none.
firstPageIncluding(pageSeq, paragraph) ==
    LET hits == {j \in 1..Len(pageSeq) :
                    includes(pageSeq[j].text, substring0(paragraph, PrefixLen))}
    IN  IF hits = {} THEN 0 ELSE CHOOSE j \in hits : \A k \in hits : j <= k

\* A slip that leaves out the break: every page that includes the prefix.
RECURSIVE matchedPagesNoBreak(_, _, _)
matchedPagesNoBreak(paragraphs, rel, pageSeq) ==
    IF rel = <<>> THEN <<>>
    ELSE LET before == matchedPagesNoBreak(paragraphs, SubSeq(rel, 1, Len(rel) - 1), pageSeq)
             par    == paragraphs[rel[Len(rel)]]
             hits   == SelectSeq(indicesOf(pageSeq),
                           LAMBDA j : /\ includes(pageSeq[j].text, substring0(par, PrefixLen))
                                      /\ pageSeq[j].pageNum \notin Range(before))
         IN  before \o [n \in 1..Len(hits) |-> pageSeq[hits[n]].pageNum]

\* The loop over relevantParagraphs and pageContents: for each paragraph in
\* turn, the first page that includes its prefix is pushed unless present.
RECURSIVE matchedPages(_, _, _)
matchedPages(paragraphs, rel, pageSeq) ==
    IF rel = <<>> THEN <<>>
    ELSE LET before == matchedPages(paragraphs, SubSeq(rel, 1, Len(rel) - 1), pageSeq)
             j      == firstPageIncluding(pageSeq, paragraphs[rel[Len(rel)]])
         IN  IF j = 0 \/ pageSeq[j].pageNum \in Range(before)
             THEN before
             ELSE Append(before, pageSeq[j].pageNum)

\* A slip that returns matchedPages as collected.
sortPagesKeepOrder(nums) == nums

\* matchedPages.sort((a, b) => a - b)
RECURSIVE sortPages(_)
sortPages(nums) ==
    IF nums = <<>> THEN <<>>
    ELSE LET rest == sortPages(SubSeq(nums, 1, Len(nums) - 1))
             x    == nums[Len(nums)]
             k    == Cardinality({i \in 1..Len(rest) : rest[i] <= x})
         IN  SubSeq(rest, 1, k) \o <<x>> \o SubSeq(rest, k + 1, Len(rest))

textsOf(paragraphs, idx) == [n \in 1..Len(idx) |-> paragraphs[idx[n]]]

Returned(ctx, pgs, sel) == [threw |-> FALSE, context |-> ctx, pages |-> pgs, selected |-> sel]

Thrown == [threw |-> TRUE, context |-> <<>>, pages |-> <<>>, selected |-> <<>>]

\* findRelevantContext(pdfText, pageContents, question) with page attribution.
findRelevantContextPages(text, pageSeq, q) ==
    IF isBlank(text) THEN Returned(<<>>, <<>>, <<>>)
    ELSE LET term       == searchTermOf(q)
             paragraphs == paragraphsOf(text)
         IN  IF Len(paragraphs) > 0 /\ ~RegExpValid(term) THEN Thrown
             ELSE LET rel == relevantParagraphs(paragraphs, term)
                  IN  IF Len(rel) = 0
                      THEN Returned(noMatchMessage(q, term), <<>>, <<>>)
                      ELSE Returned(join(textsOf(paragraphs, rel), BlankLine),
                                    sortPages(matchedPages(paragraphs, rel, pageSeq)),
                                    rel)

\* A slip that keeps one topicPattern between calls with the g flag: after a
\* call whose test succeeded, the next test resumes past the end and fails.
findRelevantContextHeadingSticky(text, q) ==
    IF isBlank(text) THEN Returned(<<>>, <<>>, <<>>)
    ELSE LET term       == searchTermOf(q)
             paragraphs == paragraphsOf(text)
         IN  IF Len(paragraphs) > 0 /\ ~RegExpValid(term) THEN Thrown
             ELSE LET exact   == IF prev.selected # <<>> THEN <<>>
                                 ELSE exactMatches(paragraphs, term)
                      related == relatedMatches(paragraphs, term)
                  IN  IF Len(exact) > 0
                      THEN Returned(join(textsOf(paragraphs, exact), BlankLine), <<>>, exact)
                      ELSE IF Len(related) > 0
                      THEN Returned(join(textsOf(paragraphs, related), BlankLine), <<>>, related)
                      ELSE Returned(noMatchMessage(q, term), <<>>, <<>>)

\* findRelevantContext(pdfText, question) returning the context string alone.
findRelevantContextHeading(text, q) ==
    IF isBlank(text) THEN Returned(<<>>, <<>>, <<>>)
    ELSE LET term       == searchTermOf(q)
             paragraphs == paragraphsOf(text)
         IN  IF Len(paragraphs) > 0 /\ ~RegExpValid(term) THEN Thrown
             ELSE LET exact   == exactMatches(paragraphs, term)
                      related == relatedMatches(paragraphs, term)
                  IN  IF Len(exact) > 0
                      THEN Returned(join(textsOf(paragraphs, exact), BlankLine), <<>>, exact)
                      ELSE IF Len(related) > 0
                      THEN Returned(join(textsOf(paragraphs, related), BlankLine), <<>>, related)
                      ELSE Returned(noMatchMessage(q, term), <<>>, <<>>)

(***************************************************************************)
(* extractKeywords                                                         *)
(***************************************************************************)

\* A slip that lists the summary words among the stopwords.
stopwordsWithSummary ==
    { Chars(w) : w \in
      {"what", "when", "where", "which", "who", "whom", "whose", "why", "how",
       "does", "did", "do", "is", "are", "was", "were", "am", "be", "being", "been",
       "can", "could", "will", "would", "shall", "should", "may", "might", "must",
       "about", "with", "for", "to", "from", "in", "on", "at", "by", "and", "or",
       "the", "a", "an", "this", "that", "these", "those", "tell", "explain", "describe",
       "provide", "give", "me", "please", "information", "details", "regarding",
       "summary", "summarize"} }

stopwords ==
    { Chars(w) : w \in
      {"what", "when", "where", "which", "who", "whom", "whose", "why", "how",
       "does", "did", "do", "is", "are", "was", "were", "am", "be", "being", "been",
       "can", "could", "will", "would", "shall", "should", "may", "might", "must",
       "about", "with", "for", "to", "from", "in", "on", "at", "by", "and", "or",
       "the", "a", "an", "this", "that", "these", "those", "tell", "explain", "describe",
       "provide", "give", "me", "please", "information", "details", "regarding"} }

\* String.prototype.split(' '): the pieces between single spaces, empty ones kept.
RECURSIVE splitOnSpace(_)
splitOnSpace(s) ==
    LET spaces == {i \in 1..Len(s) : s[i] = " "}
    IN  IF spaces = {} THEN <<s>>
        ELSE LET i == CHOOSE x \in spaces : \A y \in spaces : x <= y
             IN  <<SubSeq(s, 1, i - 1)>> \o splitOnSpace(SubSeq(s, i + 1, Len(s)))

\* [...new Set(items)]: the first occurrence of every value, in order.
RECURSIVE dedupe(_)
dedupe(items) ==
    IF items = <<>> THEN <<>>
    ELSE LET before == dedupe(SubSeq(items, 1, Len(items) - 1))
             x      == items[Len(items)]
         IN  IF x \in Range(before) THEN before ELSE Append(before, x)

\* question.replace(/[^\w\s]/g, '').split(' ').filter(length > 2)
\*         .filter(not a stopword).map(toLowerCase)
wordsOf(q) ==
    LET cleaned == SelectSeq(q, LAMBDA c : IsWordChar(c) \/ IsWhitespace(c))
        kept    == SelectSeq(splitOnSpace(cleaned),
                             LAMBDA w : Len(w) > 2 /\ w \notin stopwords)
    IN  [i \in 1..Len(kept) |-> toLowerCase(kept[i])]

\* The phrases pushed at loop index i (1-based) over words.
phrasesAt(words, i) ==
    (IF words[i] \notin stopwords /\ words[i + 1] \notin stopwords
     THEN <<words[i] \o <<" ">> \o words[i + 1]>> ELSE <<>>)
    \o
    (IF /\ i < Len(words) - 1
        /\ words[i] \notin stopwords
        /\ words[i + 1] \notin stopwords
        /\ words[i + 2] \notin stopwords
     THEN <<words[i] \o <<" ">> \o words[i + 1] \o <<" ">> \o words[i + 2]>> ELSE <<>>)

RECURSIVE phrasesUpTo(_, _)
phrasesUpTo(words, n) ==
    IF n < 1 THEN <<>> ELSE phrasesUpTo(words, n - 1) \o phrasesAt(words, n)

extractKeywords(q) ==
    LET words == wordsOf(q)
    IN  dedupe(words \o phrasesUpTo(words, Len(words) - 1))

(***************************************************************************)
(* findRelevantContext, keyword scoring                                    *)
(***************************************************************************)

SummaryCap == 8000
FallbackCap == 5000
TopK == 5
KeywordBonus == 2

\* paragraphLower.match(new RegExp(keyword, 'gi')): the matches found left to
\* right, each search resuming after the previous match.  A keyword holds
\* only word characters and whitespace, all literal in a pattern.
RECURSIVE countMatchesFrom(_, _, _)
countMatchesFrom(hay, keyword, from) ==
    LET hits == {i \in from..(Len(hay) - Len(keyword) + 1) : OccursAt(hay, keyword, i)}
    IN  IF hits = {} THEN 0
        ELSE LET i == CHOOSE x \in hits : \A y \in hits : x <= y
             IN  1 + countMatchesFrom(hay, keyword, i + Len(keyword))

RECURSIVE sum(_)
sum(nums) == IF nums = <<>> THEN 0 ELSE nums[1] + sum(Tail(nums))

\* A slip that counts every place a keyword occurs, overlapping or not.
scoreOfOverlapping(paragraph, keywords) ==
    LET paragraphLower == toLowerCase(paragraph)
        frequency == sum([n \in 1..Len(keywords) |->
                             Cardinality({i \in 1..Len(paragraphLower) :
                                             OccursAt(paragraphLower, keywords[n], i)})])
        uniqueKeywordsFound == sum([n \in 1..Len(keywords) |->
                             IF includes(paragraphLower, keywords[n]) THEN 1 ELSE 0])
    IN  frequency + uniqueKeywordsFound * KeywordBonus

\* The score of one paragraph: keyword frequency plus 2 per keyword present.
scoreOf(paragraph, keywords) ==
    LET paragraphLower == toLowerCase(paragraph)
        frequency == sum([n \in 1..Len(keywords) |->
                             countMatchesFrom(paragraphLower, keywords[n], 1)])
        uniqueKeywordsFound == sum([n \in 1..Len(keywords) |->
                             IF includes(paragraphLower, keywords[n]) THEN 1 ELSE 0])
    IN  frequency + uniqueKeywordsFound * KeywordBonus

\* paragraphs.map(paragraph => ({ paragraph, score })), each entry with the
\* paragraph's position.
scoredParagraphs(paragraphs, keywords) ==
    [i \in 1..Len(paragraphs) |-> [paragraph |-> i, score |-> scoreOf(paragraphs[i], keywords)]]

\* A sort that is not stable: an entry goes before the entries of equal score.
RECURSIVE sortByScoreUnstable(_)
sortByScoreUnstable(items) ==
    IF items = <<>> THEN <<>>
    ELSE LET rest == sortByScoreUnstable(SubSeq(items, 1, Len(items) - 1))
             x    == items[Len(items)]
             k    == Cardinality({i \in 1..Len(rest) : rest[i].score > x.score})
         IN  SubSeq(rest, 1, k) \o <<x>> \o SubSeq(rest, k + 1, Len(rest))

\* scoredParagraphs.sort((a, b) => b.score - a.score): Array.prototype.sort
\* is stable (ECMAScript 2019), entries of equal score keep their order.
RECURSIVE sortByScore(_)
sortByScore(items) ==
    IF items = <<>> THEN <<>>
    ELSE LET rest == sortByScore(SubSeq(items, 1, Len(items) - 1))
             x    == items[Len(items)]
             k    == Cardinality({i \in 1..Len(rest) : rest[i].score >= x.score})
         IN  SubSeq(rest, 1, k) \o <<x>> \o SubSeq(rest, k + 1, Len(rest))

\* A slip that cuts to five before sorting.
topParagraphsSliceFirst(scored) ==
    LET sliced == SubSeq(scored, 1, IF Len(scored) < TopK THEN Len(scored) ELSE TopK)
        kept   == SelectSeq(sortByScore(sliced), LAMBDA item : item.score > 0)
    IN  [n \in 1..Len(kept) |-> kept[n].paragraph]

\* .sort(...).slice(0, 5).filter(item => item.score > 0).map(item => item.paragraph)
topParagraphs(scored) ==
    LET sorted == sortByScore(scored)
        sliced == SubSeq(sorted, 1, IF Len(sorted) < TopK THEN Len(sorted) ELSE TopK)
        kept   == SelectSeq(sliced, LAMBDA item : item.score > 0)
    IN  [n \in 1..Len(kept) |-> kept[n].paragraph]

\* A slip in the cap of the summarization branch.
summaryChunkUncapped(text) == text

\* pdfText.length > 8000 ? pdfText.substring(0, 8000) : pdfText
summaryChunk(text) == IF Len(text) > SummaryCap THEN SubSeq(text, 1, SummaryCap) ELSE text

\* A slip in the cap of the fallback branch.
fallbackChunkUncapped(text) == text

\* pdfText.length > 5000 ? pdfText.substring(0, 5000) : pdfText
fallbackChunk(text) == IF Len(text) > FallbackCap THEN SubSeq(text, 1, FallbackCap) ELSE text

\* questionLower.includes('summarize') || questionLower.includes('summary')
isSummarization(questionLower) ==
    includes(questionLower, Chars("summarize")) \/ includes(questionLower, Chars("summary"))

\* findRelevantContext(pdfText, question) by keyword scoring.
findRelevantContextKeywords(text, q) ==
    IF isBlank(text) THEN Returned(<<>>, <<>>, <<>>)
    ELSE LET questionLower == trim(toLowerCase(q))
         IN  IF isSummarization(questionLower) THEN Returned(summaryChunk(text), <<>>, <<>>)
             ELSE LET keywords == extractKeywords(questionLower)
                  IN  IF Len(keywords) = 0 THEN Returned(fallbackChunk(text), <<>>, <<>>)
                      ELSE LET paragraphs == paragraphsOf(text)
                               top == topParagraphs(scoredParagraphs(paragraphs, keywords))
                           IN  IF Len(top) = 0
                               THEN Returned(fallbackChunk(text), <<>>, <<>>)
                               ELSE Returned(join(textsOf(paragraphs, top), BlankLine), <<>>, top)

(***************************************************************************)
(* extractTextFromPDF: one PageContent per page, numbered from 1, and the  *)
(* full text, every page text followed by a blank line, trimmed.           *)
(***************************************************************************)

RECURSIVE concatPages(_)
concatPages(texts) ==
    IF texts = <<>> THEN <<>>
    ELSE texts[1] \o BlankLine \o concatPages(Tail(texts))

extractTextFromPDF(texts) ==
    [fullText     |-> trim(concatPages(texts)),
     pageContents |-> [n \in 1..Len(texts) |-> [text |-> texts[n], pageNum |-> n]]]

(***************************************************************************)
(* generateAnswer of the AI service and its local answerer.  A function    *)
(* result is a record: threw tells whether the call threw, text is what it *)
(* returned.                                                               *)
(***************************************************************************)

Answered(t) == [threw |-> FALSE, text |-> t]

Raised == [threw |-> TRUE, text |-> <<>>]

LocalTopK == 3
ShortContext == 500
MinParagraph == 10

\* The words the local answerer leaves out of the question keywords.
localStopwords ==
    { Chars(w) : w \in
      {"what", "when", "where", "which", "who", "whom", "whose", "why", "how", "does",
       "did", "about", "with", "can", "could", "would", "should", "tell", "explain",
       "describe", "give"} }

\* replace(/[^\w\s]/g, '')
stripPunctuation(s) == SelectSeq(s, LAMBDA c : IsWordChar(c) \/ IsWhitespace(c))

\* context.split(/\n\n+/).filter(p => p.trim().length > 10)
longParagraphsOf(text) == SelectSeq(split(text), LAMBDA p : Len(trim(p)) > MinParagraph)

\* The keywords of the question: the cleaned words longer than 3 characters
\* that are not left out; when there are none, the words of the question as
\* typed (punctuation kept) longer than 3 characters.
keywordsOf(questionLower) ==
    LET kept == SelectSeq(splitOnSpace(stripPunctuation(questionLower)),
                          LAMBDA w : Len(w) > 3 /\ w \notin localStopwords)
    IN  IF Len(kept) = 0
        THEN SelectSeq(splitOnSpace(questionLower), LAMBDA w : Len(w) > 3)
        ELSE kept

\* paragraphLower.match(new RegExp(keyword, 'gi')): the keyword is pattern
\* source, every character of it matching one character of the paragraph.
RECURSIVE countPatternFrom(_, _, _)
countPatternFrom(hay, pattern, from) ==
    LET hits == {i \in from..(Len(hay) - Len(pattern) + 1) : TermMatchesAt(hay, pattern, i)}
    IN  IF hits = {} THEN 0
        ELSE LET i == CHOOSE x \in hits : \A y \in hits : x <= y
             IN  1 + countPatternFrom(hay, pattern, i + Len(pattern))

\* The openers that extractPhrases removes from the start of the question.
leadIns ==
    { Chars(w) : w \in
      {"what", "when", "where", "which", "who", "whom", "whose", "why", "how", "does",
       "did", "can", "could", "would", "should", "tell me about", "explain", "describe"} }

\* replace(/^(what|...|describe) /i, '').replace(/[^\w\s]/g, '')
cleanedQuestionOf(q) ==
    LET opener == {w \in leadIns : /\ Len(q) > Len(w)
                                   /\ toLowerCase(SubSeq(q, 1, Len(w))) = w
                                   /\ q[Len(w) + 1] = " "}
        rest   == IF opener = {} THEN q
                  ELSE LET w == CHOOSE x \in opener : TRUE
                       IN  SubSeq(q, Len(w) + 2, Len(q))
    IN  stripPunctuation(rest)

\* The phrases pushed at loop index i (1-based) of extractPhrases.
localPhrasesAt(words, i) ==
    <<words[i] \o <<" ">> \o words[i + 1]>>
    \o (IF i < Len(words) - 1
        THEN <<words[i] \o <<" ">> \o words[i + 1] \o <<" ">> \o words[i + 2]>>
        ELSE <<>>)

RECURSIVE localPhrasesUpTo(_, _)
localPhrasesUpTo(words, n) ==
    IF n < 1 THEN <<>> ELSE localPhrasesUpTo(words, n - 1) \o localPhrasesAt(words, n)

\* extractPhrases: the 2- and 3-word phrases, then the cleaned question.
extractPhrases(q) ==
    LET cleanedQuestion == cleanedQuestionOf(q)
        words == SelectSeq(splitOnSpace(cleanedQuestion), LAMBDA w : Len(w) > 2)
    IN  Append(localPhrasesUpTo(words, Len(words) - 1), cleanedQuestion)

\* The score of one paragraph in the local answerer: 2 per keyword match,
\* 3 per word of every phrase the paragraph includes.
localScoreOf(paragraph, keywords, phrases) ==
    LET paragraphLower == toLowerCase(paragraph)
    IN  sum([n \in 1..Len(keywords) |-> countPatternFrom(paragraphLower, keywords[n], 1) * 2])
        + sum([n \in 1..Len(phrases) |->
                  IF includes(paragraphLower, phrases[n])
                  THEN Len(splitOnSpace(phrases[n])) * 3 ELSE 0])

\* .sort((a, b) => b.score - a.score).slice(0, 3).filter(score > 0)
localTopParagraphs(scored) ==
    LET sorted == sortByScore(scored)
        sliced == SubSeq(sorted, 1, IF Len(sorted) < LocalTopK THEN Len(sorted) ELSE LocalTopK)
        kept   == SelectSeq(sliced, LAMBDA item : item.score > 0)
    IN  [n \in 1..Len(kept) |-> kept[n].paragraph]

\* generateSummary of the AI service.
generateSummary(ctx) ==
    IF Len(ctx) < ShortContext THEN Chars("Summary of the document: ") \o ctx
    ELSE LET paragraphs == longParagraphsOf(ctx)
             n == Len(paragraphs)
         IN  IF n <= 3
             THEN Chars("Summary of the document: ") \o join(paragraphs, BlankLine)
             ELSE Chars("Summary of the document:") \o BlankLine
                  \o paragraphs[1] \o BlankLine
                  \o paragraphs[(n \div 2) + 1] \o BlankLine
                  \o paragraphs[n] \o BlankLine
                  \o Chars("This summary includes the introduction, key content, and conclusion from the document. The full document contains more details.")

NothingSpecific ==
    Chars("I couldn't find specific information about that in the document. The document doesn't appear to contain content related to your question. Could you try rephrasing your question or asking about something else mentioned in the document?")

NothingRelevant ==
    Chars("I couldn't find relevant information in the document to answer your question. Please try asking something else or upload a document with more content.")

RECURSIVE quoteAll(_)
quoteAll(paragraphs) ==
    IF paragraphs = <<>> THEN <<>>
    ELSE paragraphs[1] \o BlankLine \o quoteAll(Tail(paragraphs))

\* The paragraphs the local answerer keeps, as positions in the list of the
\* paragraphs of the context that are longer than 10 characters.
localSelection(ctx, q) ==
    LET questionLower == toLowerCase(q)
        paragraphs == longParagraphsOf(ctx)
        keywords   == keywordsOf(questionLower)
        phrases    == extractPhrases(questionLower)
    IN  localTopParagraphs([i \in 1..Len(paragraphs) |->
            [paragraph |-> i, score |-> localScoreOf(paragraphs[i], keywords, phrases)]])

\* enhancedLocalAnswering(context, question) of the AI service.  The RegExp
\* constructor runs for every paragraph and keyword and throws on a keyword
\* that is not a pattern.
enhancedLocalAnswering(ctx, q) ==
    LET questionLower == toLowerCase(q)
    IN  IF isSummarization(questionLower) THEN Answered(generateSummary(ctx))
        ELSE LET paragraphs == longParagraphsOf(ctx)
                 keywords   == keywordsOf(questionLower)
             IN  IF /\ Len(paragraphs) > 0
                    /\ \E n \in 1..Len(keywords) : ~RegExpValid(keywords[n])
                 THEN Raised
                 ELSE LET relevant == textsOf(paragraphs, localSelection(ctx, q))
                      IN  IF Len(relevant) = 0 THEN Answered(NothingSpecific)
                          ELSE Answered(
                                 Chars("Based on the document, I found the following information:")
                                 \o BlankLine \o quoteAll(relevant)
                                 \o (IF Len(relevant) > 1
                                     THEN Chars("These sections from the document appear most relevant to your question. If you need more specific information, please try asking a more focused question.")
                                     ELSE <<>>))

InstEnd == Chars("[/INST]")

\* fullResponse.split("[/INST]")[1]?.trim() || fullResponse
answerPartOf(fullResponse) ==
    LET marks == {i \in 1..Len(fullResponse) : OccursAt(fullResponse, InstEnd, i)}
    IN  IF marks = {} THEN fullResponse
        ELSE LET first  == CHOOSE x \in marks : \A y \in marks : x <= y
                 from   == first + Len(InstEnd)
                 later  == {i \in marks : i >= from}
                 upto   == IF later = {} THEN Len(fullResponse)
                           ELSE (CHOOSE x \in later : \A y \in later : x <= y) - 1
                 second == trim(SubSeq(fullResponse, from, upto))
             IN  IF second = <<>> THEN fullResponse ELSE second

\* What generateAnswer of the AI service settles with once the remote call
\* has had its outcome.  The local answerer runs inside the try block (status
\* not OK, payload without text) or inside the catch block (fetch or json()
\* rejected; an exception of the try block); an exception it raises inside
\* the catch block rejects the promise.
Settled(r) == [rejected |-> r.threw, text |-> r.text]

settleRemote(outcome, generated, ctx, q) ==
    IF outcome = "generated" /\ Len(generated) > 0
    THEN [rejected |-> FALSE, text |-> answerPartOf(generated)]
    ELSE Settled(enhancedLocalAnswering(ctx, q))

(***************************************************************************)
(* generateAnswer(context, pages, question) answering locally, with the    *)
(* links to external resources.  A pictograph is one element of a text,    *)
(* named by its code point, as is a lone surrogate.                        *)
(***************************************************************************)

LoneSurrogate == "U+D800"

UnreservedSet ==
    UpperSet \cup Range(LowerChars) \cup DigitSet \cup {"-", "_", ".", "!", "~", "*", "'", "(", ")"}

EscapeOf ==
    [c \in {" ", "\n", "\t", ":", "?", "\"", "/", "[", "]"} |->
        CASE c = " "  -> Chars("%20")
          [] c = "\n" -> Chars("%0A")
          [] c = "\t" -> Chars("%09")
          [] c = ":"  -> Chars("%3A")
          [] c = "?"  -> Chars("%3F")
          [] c = "\"" -> Chars("%22")
          [] c = "/"  -> Chars("%2F")
          [] c = "["  -> Chars("%5B")
          [] c = "]"  -> Chars("%5D")]

\* encodeURIComponent: unreserved characters stay, the others become their
\* UTF-8 bytes in %XX form; a lone surrogate raises a URIError.
RECURSIVE encodeURIComponent(_)
encodeURIComponent(s) ==
    IF s = <<>> THEN Answered(<<>>)
    ELSE IF s[1] = LoneSurrogate THEN Raised
    ELSE LET rest == encodeURIComponent(Tail(s))
         IN  IF rest.threw THEN Raised
             ELSE Answered((IF s[1] \in UnreservedSet THEN <<s[1]>> ELSE EscapeOf[s[1]])
                           \o rest.text)

\* Number.prototype.toString of a page number.
RECURSIVE numberToString(_)
numberToString(n) ==
    IF n < 10 THEN <<DigitChars[n + 1]>>
    ELSE numberToString(n \div 10) \o <<DigitChars[(n % 10) + 1]>>

\* String.prototype.split('\n\n'): the pieces between occurrences of the
\* separator taken left to right.
RECURSIVE splitOnBlankLine(_)
splitOnBlankLine(s) ==
    LET marks == {i \in 1..Len(s) : OccursAt(s, BlankLine, i)}
    IN  IF marks = {} THEN <<s>>
        ELSE LET i == CHOOSE x \in marks : \A y \in marks : x <= y
             IN  <<SubSeq(s, 1, i - 1)>> \o splitOnBlankLine(SubSeq(s, i + 2, Len(s)))

identifyQuestionType(q) ==
    LET questionLower == toLowerCase(q)
    IN  IF isSummarization(questionLower) THEN "summary"
        ELSE IF \E w \in {"what", "when", "where", "who", "how", "why"} :
                    includes(questionLower, Chars(w))
        THEN "specific"
        ELSE "general"

\* generateSummary of the local answerer: the first paragraph, then the
\* others as key points.
generateSummaryKeyPoints(ctx) ==
    LET paragraphs == SelectSeq(splitOnBlankLine(ctx), LAMBDA p : Len(trim(p)) > 0)
    IN  IF Len(paragraphs) <= 1 THEN ctx
        ELSE paragraphs[1] \o BlankLine \o <<"U+1F511">> \o Chars(" Key points:\n")
             \o join([n \in 1..(Len(paragraphs) - 1) |->
                         <<Bullet, " ">> \o trim(paragraphs[n + 1])], <<"\n">>)

\* enhancedLocalAnswering(context, pages, question)
enhancedLocalAnsweringPages(ctx, pgs, q) ==
    LET questionType == identifyQuestionType(q)
        response ==
            IF questionType = "summary"
            THEN <<"U+1F4DA">> \o Chars(" Here's a friendly summary:") \o BlankLine
                 \o generateSummaryKeyPoints(ctx)
            ELSE IF questionType = "specific"
            THEN <<"U+1F50D">> \o Chars(" I found this specific information:") \o BlankLine \o ctx
            ELSE <<"U+1F4A1">> \o Chars(" Based on the document:") \o BlankLine \o ctx
        reference ==
            IF Len(pgs) > 0
            THEN BlankLine \o <<"U+1F4C4">> \o Chars(" This information can be found on page")
                 \o (IF Len(pgs) > 1 THEN <<"s">> ELSE <<>>) \o <<" ">>
                 \o join([n \in 1..Len(pgs) |-> numberToString(pgs[n])], <<",", " ">>)
                 \o <<".">>
            ELSE <<>>
    IN  response \o reference \o BlankLine \o <<"U+2728">>
        \o Chars(" Let me know if you'd like to know more!")

NoContentYet ==
    Chars("I don't see any content to work with in the document yet. Could you try uploading a document first? I'd love to help answer your questions! ")
    \o <<"U+1F917">>

\* generateAnswer(context, pages, question): the local answer followed by
\* the links; when building the links raises, the local answer alone.
generateAnswerLocally(ctx, pgs, q) ==
    IF Len(ctx) = 0 \/ trim(ctx) = <<>> THEN NoContentYet
    ELSE LET local   == enhancedLocalAnsweringPages(ctx, pgs, q)
             encoded == encodeURIComponent(q)
         IN  IF encoded.threw THEN local
             ELSE local \o BlankLine \o <<"U+1F50D">>
                  \o Chars(" External resources for further study:\n- [Google Search](https://www.google.com/search?q=")
                  \o encoded.text
                  \o Chars(")\n- [YouTube Videos](https://www.youtube.com/results?search_query=")
                  \o encoded.text \o <<")">>

(***************************************************************************)
(* Inputs                                                                  *)
(***************************************************************************)

MaxDocLen == 3
MaxQuestionLen == 2
MaxPages == 2

RECURSIVE SeqsUpTo(_, _)
SeqsUpTo(S, n) ==
    IF n = 0 THEN {<<>>}
    ELSE LET shorter == SeqsUpTo(S, n - 1)
         IN  shorter \cup {Append(t, c) : t \in shorter, c \in S}

DocAlphabet == {"b", ":", " ", "\n"}
QuestionAlphabet == {"b", "B", " ", "("}

DocBots == Chars("Intro text\n\n1. Bots: a bot is a program\n\nmy bots are\n\n\nBots: x")
DocTies == Chars("bots\n\nbots bots\n\nzz\n\nbots a\n\nbots b\n\nbots c\n\nbots d\n\nbots bots e")
DocUntrimmed == Chars(" a \n\n b\nbots:\n")
DocPlan == Chars("what is the plan\n\nthe end\n\n* summary: none")
DocMessage == noMatchMessage(Chars("bots"), Chars("bots"))
DocTrailing == Chars("zz bots\n\nbots bots\n")
DocRepeat == Chars("bbbbb\n\nb BBB bbbb:\n\nbb")
DocSpaced == Chars("Intro \n\nBots: x")

ShortDocs ==
    {DocBots, DocTies, DocUntrimmed, DocPlan, DocMessage, DocTrailing, DocRepeat, DocSpaced,
     Chars(" \n\t "),
     Chars("\n\n\n")}
    \cup SeqsUpTo(DocAlphabet, MaxDocLen)

Questions ==
    { Chars(q) : q \in
      {"bots", " Bots ", "what is the", "zebra", "bots (", "b.ts", "summarize this document",
       "a SUMMARY", "what are bots", "bots program", "Intro Text", "\t", "bbb", "is Bbb bbbb?",
       "is\tbots", "bots the program", "bots is a program now"} }
    \cup SeqsUpTo(QuestionAlphabet, MaxQuestionLen)

PageTexts == { Chars(t) : t \in {"Intro text", "x bots: b", "bots: a", "bots: b"} }

PagedQuestions == { Chars(q) : q \in {"bots", "Text", "zebra", "("} }

\* A paragraph one character longer than the attribution prefix, and a page
\* that holds the prefix but not the paragraph.
LongParagraph == Chars("Bots: ") \o Rep("x", PrefixLen - 5)

PrefixDocs ==
    { [text  |-> LongParagraph \o BlankLine \o Chars("bots: a"),
       pages |-> <<[text |-> Chars("bots: a"), pageNum |-> 1],
                   [text |-> Chars("see ") \o SubSeq(LongParagraph, 1, PrefixLen), pageNum |-> 2]>>],
      [text  |-> LongParagraph,
       pages |-> <<[text |-> SubSeq(LongParagraph, 1, PrefixLen - 1), pageNum |-> 1],
                   [text |-> LongParagraph, pageNum |-> 2],
                   [text |-> LongParagraph, pageNum |-> 3]>>] }

\* Documents just over the caps of the summarization and fallback branches,
\* each with the question that takes it there.
LongInputs ==
    { [text |-> Rep("x", SummaryCap + 1),  q |-> Chars("Summarize it")],
      [text |-> Rep("x", FallbackCap + 1), q |-> Chars("what is the")],
      [text |-> Rep("x", FallbackCap + 1), q |-> Chars("bots")] }

\* The session-based chat page before it is opened with nothing stored, and
\* the PDF uploader before any file reaches it.
null == 0

NoItem == [present |-> FALSE, value |-> <<>>]

Item(v) == [present |-> TRUE, value |-> v]

ChatPageClosed ==
    /\ sessions = <<>>
    /\ activeSessionId = null
    /\ sessionDocuments = <<>>
    /\ localStorage = [chatSessions |-> NoItem, sessionDocuments |-> NoItem]
    /\ isLoading = FALSE
    /\ inFlight = <<>>
    /\ uuid = 1

UploaderUnused ==
    /\ isDragging = FALSE
    /\ uploaded = <<>>

NoCall == [variant |-> "none", pdfText |-> <<>>, pageContents |-> <<>>, question |-> <<>>,
           pc |-> "idle", context |-> <<>>, pages |-> <<>>, selected |-> <<>>]

NothingCalled ==
    /\ pc = "idle"
    /\ variant = "none"
    /\ context = <<>>
    /\ pages = <<>>
    /\ selected = <<>>
    /\ prev = NoCall
    /\ remote = "none"
    /\ answer = <<>>

Idle == NothingCalled /\ ChatPageClosed /\ UploaderUnused

\* A document held without its pages (the chat page passes no page list).
InitDirect ==
    /\ pdfText \in ShortDocs
    /\ pageContents = <<>>
    /\ question \in Questions

\* A document and its pages as extractTextFromPDF hands them over.
InitUploaded ==
    /\ \E texts \in SeqsUpTo(PageTexts, MaxPages) :
          /\ pdfText = extractTextFromPDF(texts).fullText
          /\ pageContents = extractTextFromPDF(texts).pageContents
    /\ question \in PagedQuestions

InitPrefix ==
    /\ \E d \in PrefixDocs : pdfText = d.text /\ pageContents = d.pages
    /\ question \in PagedQuestions

InitLong ==
    /\ \E d \in LongInputs : pdfText = d.text /\ question = d.q
    /\ pageContents = <<>>

Init == Idle /\ (InitDirect \/ InitUploaded \/ InitPrefix \/ InitLong)

(***************************************************************************)
(* The calls                                                               *)
(***************************************************************************)

\* A slip that turns the caller's page list around while looking through it.
DeliverReversingPages(v, r) ==
    /\ variant' = v
    /\ pc' = IF r.threw THEN "threw" ELSE "done"
    /\ context' = r.context
    /\ pages' = r.pages
    /\ selected' = r.selected
    /\ pageContents' = [n \in 1..Len(pageContents) |-> pageContents[Len(pageContents) + 1 - n]]
    /\ UNCHANGED <<pdfText, question, prev, remote, answer, chatPage, uploader>>

Deliver(v, r) ==
    /\ variant' = v
    /\ pc' = IF r.threw THEN "threw" ELSE "done"
    /\ context' = r.context
    /\ pages' = r.pages
    /\ selected' = r.selected
    /\ UNCHANGED <<pdfText, pageContents, question, prev, remote, answer, chatPage, uploader>>

\* findRelevantContext(pdfText, pageContents, question)
CallPages ==
    /\ pc = "idle"
    /\ Deliver("pages", findRelevantContextPages(pdfText, pageContents, question))

\* handleAskQuestion of the chat page, up to the context it hands on:
\* no call without a document, and an empty page list otherwise.
handleAskQuestion ==
    /\ pc = "idle"
    /\ IF Len(pdfText) = 0
       THEN /\ pc' = "noDocument"
            /\ variant' = "chat"
            /\ UNCHANGED <<pdfText, pageContents, question, context, pages, selected, prev,
                           remote, answer, chatPage, uploader>>
       ELSE Deliver("chat", findRelevantContextPages(pdfText, <<>>, question))

\* findRelevantContext(pdfText, question), heading match
CallHeading ==
    /\ pc = "idle"
    /\ Deliver("heading", findRelevantContextHeading(pdfText, question))

\* findRelevantContext(pdfText, question), keyword scoring
CallKeywords ==
    /\ pc = "idle"
    /\ Deliver("keywords", findRelevantContextKeywords(pdfText, question))

Next == CallPages \/ handleAskQuestion \/ CallHeading \/ CallKeywords

Spec == Init /\ [][Next]_vars

(***************************************************************************)
(* A chat: question after question against the loaded document.  prev      *)
(* keeps one earlier call, inputs and outcome, for comparison.             *)
(***************************************************************************)

HistQuestions == { Chars(q) : q \in {"bots", "intro", "zebra", "(", "my summary"} }

HistUploads == { <<Chars("Intro text"), Chars("bots: a")>>, <<Chars("bots: a"), Chars("x bots: b")>> }

ThisCall ==
    [variant |-> variant, pdfText |-> pdfText, pageContents |-> pageContents,
     question |-> question, pc |-> pc, context |-> context, pages |-> pages,
     selected |-> selected]

\* handleSubmit of the chat interface: the answered question is done with
\* and the next one is sent, possibly after another document was loaded.
handleSubmit ==
    /\ pc # "idle"
    /\ \E q \in HistQuestions : question' = q
    /\ \/ UNCHANGED <<pdfText, pageContents>>
       \/ \E texts \in HistUploads :
             /\ pdfText' = extractTextFromPDF(texts).fullText
             /\ pageContents' = extractTextFromPDF(texts).pageContents
    /\ pc' = "idle"
    /\ variant' = "none"
    /\ context' = <<>>
    /\ pages' = <<>>
    /\ selected' = <<>>
    /\ prev' \in {prev, ThisCall}
    /\ UNCHANGED <<remote, answer, chatPage, uploader>>

InitChat ==
    /\ Idle
    /\ \E texts \in HistUploads :
          /\ pdfText = extractTextFromPDF(texts).fullText
          /\ pageContents = extractTextFromPDF(texts).pageContents
    /\ question \in HistQuestions

NextChat == CallPages \/ handleAskQuestion \/ CallHeading \/ CallKeywords \/ handleSubmit

SpecChat == InitChat /\ [][NextChat]_vars

(***************************************************************************)
(* Answering: generateAnswer is called with a context, the pages and the   *)
(* question.  The AI service posts the prompt and settles on the outcome   *)
(* of the remote call; the local service answers at once.                  *)
(***************************************************************************)

AnswerContexts ==
    { <<>>, Chars(" \n"), Chars("short"), Chars("Bots: a bot is a program"), DocBots,
      Chars("Intro text about it\n\n\nThe program runs bots\n\nbots and a program\n\nno program here at all"),
      noMatchMessage(Chars("zebra"), Chars("zebra")) }

AnswerQuestions ==
    { Chars(q) : q \in
      {"bots", "What are bots", "((((", "(bot", "what (now", "summarize it", "zebra", "",
       "b.ts", "tell me about the program", "a bot is", "?"} }
    \cup {Chars("bots") \o <<LoneSurrogate>>}

AnswerPages == { <<>>, <<1>>, <<3, 12>> }

GeneratedTexts ==
    { Chars(t) : t \in
      {"", "Bots are programs.", "<s>[INST] Question: bots [/INST] Bots are programs. ",
       "q [/INST]  ", "a[/INST]b[/INST]c"} }

InitAnswer ==
    /\ context \in AnswerContexts
    /\ pages \in AnswerPages
    /\ question \in AnswerQuestions
    /\ pdfText = <<>>
    /\ pageContents = <<>>
    /\ selected = <<>>
    /\ prev = NoCall
    /\ variant = "none"
    /\ pc = "idle"
    /\ remote = "none"
    /\ answer = <<>>
    /\ ChatPageClosed
    /\ UploaderUnused

\* generateAnswer(context, question) up to the fetch: without a context the
\* fixed answer, otherwise the request is sent.
generateAnswer ==
    /\ pc = "idle"
    /\ variant' = "aiService"
    /\ IF Len(context) = 0 \/ trim(context) = <<>>
       THEN /\ pc' = "resolved"
            /\ answer' = NothingRelevant
            /\ remote' = "none"
       ELSE /\ pc' = "fetching"
            /\ answer' = <<>>
            /\ remote' = "pending"
    /\ UNCHANGED <<pdfText, pageContents, question, context, pages, selected, prev,
                   chatPage, uploader>>

Settle(outcome, generated) ==
    /\ LET r == settleRemote(outcome, generated, context, question)
       IN  /\ pc' = IF r.rejected THEN "rejected" ELSE "resolved"
           /\ answer' = r.text
    /\ remote' = outcome
    /\ UNCHANGED <<pdfText, pageContents, question, context, pages, selected, prev, variant,
                   chatPage, uploader>>

\* fetch rejects (no network): the catch block answers locally.
FetchRejects ==
    /\ pc = "fetching"
    /\ Settle("networkFailure", <<>>)

\* The response has a status that is not OK.
ResponseNotOk ==
    /\ pc = "fetching"
    /\ Settle("notOk", <<>>)

\* response.json() rejects on a body that is not JSON.
JsonRejects ==
    /\ pc = "fetching"
    /\ Settle("malformedJson", <<>>)

\* The payload is not a non-empty array whose first entry has generated_text.
PayloadWithoutText ==
    /\ pc = "fetching"
    /\ Settle("emptyPayload", <<>>)

\* The payload carries generated_text.
PayloadGenerated ==
    /\ pc = "fetching"
    /\ \E t \in GeneratedTexts : Settle("generated", t)

\* generateAnswer(context, pages, question) of the local service.
generateAnswerLocal ==
    /\ pc = "idle"
    /\ variant' = "local"
    /\ pc' = "resolved"
    /\ answer' = generateAnswerLocally(context, pages, question)
    /\ remote' = "none"
    /\ UNCHANGED <<pdfText, pageContents, question, context, pages, selected, prev,
                   chatPage, uploader>>

NextAnswer ==
    \/ generateAnswer
    \/ FetchRejects
    \/ ResponseNotOk
    \/ JsonRejects
    \/ PayloadWithoutText
    \/ PayloadGenerated
    \/ generateAnswerLocal

SpecAnswer == InitAnswer /\ [][NextAnswer]_vars

(***************************************************************************)
(* Properties                                                              *)
(***************************************************************************)

HeadingVariants == {"pages", "chat", "heading"}

Returns == pc = "done"

\* The paragraphs of the current document and what the current question
\* makes of them.
Paragraphs == paragraphsOf(pdfText)
SearchTerm == trim(toLowerCase(question))
HeadingHits == {i \in 1..Len(Paragraphs) : topicPatternTest(Paragraphs[i], SearchTerm)}
SelectedTexts == [n \in 1..Len(selected) |-> Paragraphs[selected[n]]]

\* C1: a document that is empty or only whitespace yields, whatever the
\* question, the empty context and no pages, with nothing selected; the call
\* returns (it does not throw).
C1_BlankDocument ==
    (isAllWhitespace(pdfText) /\ pc \notin {"idle", "noDocument"})
        => (pc = "done" /\ context = <<>> /\ pages = <<>> /\ selected = <<>>)

C1_Witness ==
    /\ Returns
    /\ variant = "pages"
    /\ Len(pdfText) > 0
    /\ isAllWhitespace(pdfText)
    /\ Len(question) > 0
    /\ context = <<>>

\* C2: in the heading-match variants, when some paragraph passes the stage-1
\* heading test the selection is exactly the heading-matching paragraphs in
\* document order, and the context is their join; a paragraph that fails the
\* heading test is selected only when no paragraph passes it.
C2_HeadingPrecedence ==
    (Returns /\ variant \in HeadingVariants /\ ~isAllWhitespace(pdfText))
        => /\ HeadingHits # {} =>
                /\ selected = SortedSeq(HeadingHits)
                /\ context = join(SelectedTexts, BlankLine)
           /\ (\E n \in 1..Len(selected) : selected[n] \notin HeadingHits) => HeadingHits = {}

C2_Witness ==
    /\ Returns
    /\ variant = "pages"
    /\ HeadingHits # {}
    /\ Len(selected) > 1
    /\ \E i \in 1..Len(Paragraphs) :
          /\ i \notin HeadingHits
          /\ includes(toLowerCase(Paragraphs[i]), SearchTerm)
          /\ i \notin Range(selected)

MessageAbout(who) ==
    Chars("No specific information found about \"") \o who \o Chars("\" in the document.")

\* C3 as stated: with a non-empty document, a call that selects no paragraph
\* returns the message quoting the question as the caller supplied it and no
\* pages, and a call that selects a paragraph never returns that result.
C3_AsStated ==
    (Returns /\ variant \in HeadingVariants /\ Len(pdfText) > 0)
        => /\ selected = <<>> => (context = MessageAbout(question) /\ pages = <<>>)
           /\ selected # <<>> => ~(context = MessageAbout(question) /\ pages = <<>>)

\* C3 amended: with a document that is not empty or only whitespace, a call
\* in which both stages select nothing returns the message quoting the
\* question lower-cased and trimmed, and no pages; a call that selects a
\* paragraph returns the join of the selected paragraphs instead.
C3_NoMatchMessage ==
    (Returns /\ variant \in HeadingVariants /\ ~isAllWhitespace(pdfText))
        => /\ selected = <<>> => (context = MessageAbout(SearchTerm) /\ pages = <<>>)
           /\ selected # <<>> => context = join(SelectedTexts, BlankLine)

C3_Witness ==
    /\ Returns
    /\ variant = "heading"
    /\ ~isAllWhitespace(pdfText)
    /\ selected = <<>>
    /\ SearchTerm # question
    /\ context = MessageAbout(SearchTerm)

PageNums == {pageContents[j].pageNum : j \in 1..Len(pageContents)}

\* Page j is the first page whose text includes the first 100 characters of
\* the paragraph.
FirstHolder(j, paragraph) ==
    /\ includes(pageContents[j].text, substring0(paragraph, PrefixLen))
    /\ \A k \in 1..(j - 1) : ~includes(pageContents[k].text, substring0(paragraph, PrefixLen))

\* C4: a page number is returned exactly when some selected paragraph has its
\* first 100 characters in that page's text and in no earlier page's; there
\* are no more pages than selected paragraphs.
C4_PageAttribution ==
    (Returns /\ variant = "pages")
        => /\ \A j \in 1..Len(pageContents) :
                  pageContents[j].pageNum \in Range(pages)
                      <=> \E n \in 1..Len(selected) : FirstHolder(j, Paragraphs[selected[n]])
           /\ Range(pages) \subseteq PageNums
           /\ Len(pages) <= Len(selected)

\* A selected paragraph longer than the prefix, found whole in no page, is
\* attributed by its prefix to a page that is not the first one, and a later
\* page holding the same prefix is left out.
C4_Witness ==
    /\ Returns
    /\ variant = "pages"
    /\ \E n \in 1..Len(selected) :
          /\ Len(Paragraphs[selected[n]]) > PrefixLen
          /\ \A j \in 1..Len(pageContents) : ~includes(pageContents[j].text, Paragraphs[selected[n]])
          /\ FirstHolder(2, Paragraphs[selected[n]])
    /\ 2 \in Range(pages)

C4_WitnessFirstOnly ==
    /\ Returns
    /\ variant = "pages"
    /\ Len(pageContents) = 3
    /\ \E n \in 1..Len(selected) :
          /\ FirstHolder(2, Paragraphs[selected[n]])
          /\ includes(pageContents[3].text, substring0(Paragraphs[selected[n]], PrefixLen))
    /\ pages = <<2>>

\* C5: the returned pages are strictly ascending, are page numbers of the
\* page list the call was given, and there are none when that list is empty
\* (the chat page always passes the empty list).
C5_PagesSorted ==
    (Returns /\ variant \in {"pages", "chat"})
        => /\ \A a, b \in 1..Len(pages) : a < b => pages[a] < pages[b]
           /\ Range(pages) \subseteq (IF variant = "chat" THEN {} ELSE PageNums)
           /\ Len(pageContents) = 0 => pages = <<>>

\* The first selected paragraph sits on a later page than the second.
C5_Witness ==
    /\ Returns
    /\ variant = "pages"
    /\ Len(selected) >= 2
    /\ Len(pageContents) >= 2
    /\ FirstHolder(2, Paragraphs[selected[1]])
    /\ FirstHolder(1, Paragraphs[selected[2]])
    /\ pages = <<1, 2>>

\* The question has words and all of them are stopwords.
OnlyStopwords(q) ==
    LET tokens == SelectSeq(splitOnSpace(trim(toLowerCase(q))), LAMBDA w : Len(w) > 0)
    IN  tokens # <<>> /\ \A n \in 1..Len(tokens) : tokens[n] \in stopwords

\* C6: in the heading-match variants, a question made only of stopwords that
\* matches no heading gets a non-empty prefix of the document, at most 5000
\* characters long.
C6_StopwordPrefix ==
    (/\ Returns
     /\ variant \in HeadingVariants
     /\ ~isAllWhitespace(pdfText)
     /\ OnlyStopwords(question)
     /\ HeadingHits = {})
        => /\ context # <<>>
           /\ Len(context) <= FallbackCap
           /\ Len(context) <= Len(pdfText)
           /\ context = SubSeq(pdfText, 1, Len(context))

MentionsSummary(q) ==
    includes(toLowerCase(q), Chars("summarize")) \/ includes(toLowerCase(q), Chars("summary"))

Min(a, b) == IF a < b THEN a ELSE b

\* C7 as stated: for a summarization question and every non-empty document,
\* the context is the first min(|D|, 8000) characters of the document.
C7_AsStated ==
    (Returns /\ variant = "keywords" /\ MentionsSummary(question) /\ Len(pdfText) > 0)
        => context = SubSeq(pdfText, 1, Min(Len(pdfText), SummaryCap))

\* C7 amended: for a summarization question and every document that is not
\* empty or only whitespace, the context is the first min(|D|, 8000)
\* characters of the document.
C7_SummaryCap ==
    (Returns /\ variant = "keywords" /\ MentionsSummary(question) /\ ~isAllWhitespace(pdfText))
        => context = SubSeq(pdfText, 1, Min(Len(pdfText), SummaryCap))

C7_Witness ==
    /\ Returns
    /\ variant = "keywords"
    /\ MentionsSummary(question)
    /\ question # toLowerCase(question)
    /\ Len(pdfText) > SummaryCap
    /\ Len(context) = SummaryCap

\* The score the keywords of the current question give paragraph i.
ScoreOfParagraph(i) == scoreOf(Paragraphs[i], extractKeywords(SearchTerm))

\* C8: in the keyword variant, selected paragraphs of equal score appear in
\* document order, and of two paragraphs of equal score on either side of
\* the top-5 cut the one kept is the earlier.
C8_StableRanking ==
    (Returns /\ variant = "keywords" /\ selected # <<>>)
        => /\ \A a, b \in 1..Len(selected) :
                  (a < b /\ ScoreOfParagraph(selected[a]) = ScoreOfParagraph(selected[b]))
                      => selected[a] < selected[b]
           /\ \A i \in Range(selected) : \A k \in (1..Len(Paragraphs)) \ Range(selected) :
                  ScoreOfParagraph(i) = ScoreOfParagraph(k) => i < k

\* Five paragraphs are kept, two of them tie, and a paragraph of that same
\* score is cut.
C8_Witness ==
    /\ Returns
    /\ variant = "keywords"
    /\ Len(selected) = TopK
    /\ \E a, b \in 1..Len(selected) :
          a < b /\ ScoreOfParagraph(selected[a]) = ScoreOfParagraph(selected[b])
    /\ \E i \in Range(selected) : \E k \in (1..Len(Paragraphs)) \ Range(selected) :
          ScoreOfParagraph(i) = ScoreOfParagraph(k) /\ ScoreOfParagraph(k) > 0

SameInputs ==
    /\ prev.variant = variant
    /\ prev.pdfText = pdfText
    /\ prev.pageContents = pageContents
    /\ prev.question = question

C10_Total == pc # "threw"

\* C11: in the heading-match variants, with a document that has text, a
\* question that is empty or only whitespace selects no paragraph: the call
\* returns the no-match message and no pages.
C11_EmptyQuestion ==
    (/\ Returns
     /\ variant \in HeadingVariants
     /\ ~isAllWhitespace(pdfText)
     /\ isAllWhitespace(question))
        => /\ selected = <<>>
           /\ pages = <<>>
           /\ context = MessageAbout(SearchTerm)

\* C12: generateAnswer settles with an answer, whatever the context, the
\* question and the outcome of the remote call: its promise never rejects.
C12_NeverRejects == pc # "rejected"

\* C13: when a call selects at least one paragraph, the context is the
\* selected paragraphs joined by one blank line in selection order, and
\* segmenting the context again gives back exactly the selected paragraphs.
C13_JoinRoundTrip ==
    (Returns /\ selected # <<>>)
        => /\ context = join(SelectedTexts, BlankLine)
           /\ paragraphsOf(context) = SelectedTexts

\* C14: in the keyword variant, a call that selects by score keeps at most 5
\* paragraphs, all different and all of positive score, in non-increasing
\* score order, and leaves out no paragraph that scores strictly higher than
\* one it keeps.
C14_TopFive ==
    (Returns /\ variant = "keywords" /\ selected # <<>>)
        => /\ Len(selected) <= TopK
           /\ \A a, b \in 1..Len(selected) : a < b => selected[a] # selected[b]
           /\ \A n \in 1..Len(selected) : ScoreOfParagraph(selected[n]) > 0
           /\ \A a, b \in 1..Len(selected) :
                  a < b => ScoreOfParagraph(selected[a]) >= ScoreOfParagraph(selected[b])
           /\ \A i \in Range(selected) : \A k \in (1..Len(Paragraphs)) \ Range(selected) :
                  ScoreOfParagraph(k) <= ScoreOfParagraph(i)

\* Five paragraphs are kept, the first scoring more than the last, and a
\* paragraph of positive score that comes late in the document is kept while
\* an earlier one of lower score is left out.
C14_Witness ==
    /\ Returns
    /\ variant = "keywords"
    /\ Len(selected) = TopK
    /\ ScoreOfParagraph(selected[1]) > ScoreOfParagraph(selected[TopK])
    /\ \E i \in Range(selected) : \E k \in (1..Len(Paragraphs)) \ Range(selected) :
          /\ k < i
          /\ ScoreOfParagraph(k) > 0
          /\ ScoreOfParagraph(k) < ScoreOfParagraph(i)

\* The question gives no keyword, or no paragraph scores above 0.
NothingScores ==
    \/ extractKeywords(SearchTerm) = <<>>
    \/ \A i \in 1..Len(Paragraphs) : ScoreOfParagraph(i) = 0

\* C15 as stated: in the keyword variant, for every non-empty document and
\* every question that does not ask for a summary, when there is no keyword
\* or no paragraph of positive score the context is the first min(|D|, 5000)
\* characters of the document, and it is not empty.
C15_AsStated ==
    (/\ Returns
     /\ variant = "keywords"
     /\ Len(pdfText) > 0
     /\ ~MentionsSummary(question)
     /\ NothingScores)
        => /\ context = SubSeq(pdfText, 1, Min(Len(pdfText), FallbackCap))
           /\ context # <<>>

\* C15 amended: the same for every document that is not empty or only
\* whitespace; and for such a document the context is never empty, whatever
\* the question.
C15_Fallback ==
    (Returns /\ variant = "keywords" /\ ~isAllWhitespace(pdfText))
        => /\ (~MentionsSummary(question) /\ NothingScores)
                  => context = SubSeq(pdfText, 1, Min(Len(pdfText), FallbackCap))
           /\ context # <<>>

\* A document over the cap, a question with a keyword, no paragraph scoring.
C15_Witness ==
    /\ Returns
    /\ variant = "keywords"
    /\ ~MentionsSummary(question)
    /\ extractKeywords(SearchTerm) # <<>>
    /\ NothingScores
    /\ Len(pdfText) > FallbackCap
    /\ Len(context) = FallbackCap

Keywords == extractKeywords(SearchTerm)

\* The places where the keyword occurs in the text, compared without case.
OccurrencesOf(text, keyword) ==
    {i \in 1..(Len(text) - Len(keyword) + 1) : OccursAt(toLowerCase(text), toLowerCase(keyword), i)}

\* The largest number of occurrences of the keyword no two of which overlap.
NonOverlapping(text, keyword) ==
    LET sets == {S \in SUBSET OccurrencesOf(text, keyword) :
                    \A a, b \in S : a < b => a + Len(keyword) <= b}
    IN  CHOOSE n \in 0..Len(text) :
            /\ \E S \in sets : Cardinality(S) = n
            /\ \A S \in sets : Cardinality(S) <= n

KeywordsIn(text) == {kw \in Range(Keywords) : OccurrencesOf(text, kw) # {}}

\* C16: in the keyword variant the score of every paragraph is the number of
\* non-overlapping occurrences, without regard to case, of every keyword in
\* it, plus 2 for every different keyword that occurs in it; a paragraph
\* scores above 0 exactly when some keyword occurs in it.
C16_ScoreFormula ==
    (Returns /\ variant = "keywords" /\ ~MentionsSummary(question))
        => \A i \in 1..Len(Paragraphs) :
              /\ ScoreOfParagraph(i)
                    = sum([n \in 1..Len(Keywords) |-> NonOverlapping(Paragraphs[i], Keywords[n])])
                      + KeywordBonus * Cardinality(KeywordsIn(Paragraphs[i]))
              /\ ScoreOfParagraph(i) > 0 <=> KeywordsIn(Paragraphs[i]) # {}
              /\ (i \in Range(selected)) => ScoreOfParagraph(i) > 0

\* A selected paragraph in which a keyword occurs at overlapping places and
\* in another letter case, and which holds a phrase keyword too.
C16_Witness ==
    /\ Returns
    /\ variant = "keywords"
    /\ Len(Keywords) > 1
    /\ \E n \in 1..Len(selected) :
          LET par == Paragraphs[selected[n]]
          IN  /\ \E kw \in Range(Keywords) :
                     Cardinality(OccurrencesOf(par, kw)) > NonOverlapping(par, kw)
              /\ \E kw \in KeywordsIn(par) : ~includes(par, kw)
              /\ Cardinality(KeywordsIn(par)) > 2

\* C17: in the keyword variant, every keyword of the question without a
\* space in it is lower-case, at least 3 characters long, made of word
\* characters only and not a stopword, and no keyword is listed twice.
C17_KeywordShape ==
    (Returns /\ variant = "keywords" /\ ~isAllWhitespace(pdfText) /\ ~MentionsSummary(question))
        => /\ \A n \in 1..Len(Keywords) :
                  (" " \notin Range(Keywords[n]))
                      => /\ Keywords[n] = toLowerCase(Keywords[n])
                         /\ Len(Keywords[n]) >= 3
                         /\ \A k \in 1..Len(Keywords[n]) : IsWordChar(Keywords[n][k])
                         /\ Keywords[n] \notin stopwords
           /\ \A a, b \in 1..Len(Keywords) : a < b => Keywords[a] # Keywords[b]

\* The tokens of the question before any is filtered out.
Tokens == splitOnSpace(stripPunctuation(SearchTerm))

\* The phrase is made of the count tokens that start at token i, none of
\* them a stopword.
PhraseAt(phrase, i, count) ==
    /\ i + count - 1 <= Len(Tokens)
    /\ phrase = join([k \in 1..count |-> Tokens[i + k - 1]], <<" ">>)
    /\ \A k \in 1..count : Tokens[i + k - 1] \notin stopwords

\* C18: in the keyword variant, every keyword with a space in it is made of
\* 2 or 3 tokens that stand next to each other in the unfiltered token
\* sequence of the question, none of them a stopword.
C18_PhraseAdjacency ==
    (Returns /\ variant = "keywords" /\ ~isAllWhitespace(pdfText) /\ ~MentionsSummary(question))
        => \A n \in 1..Len(Keywords) :
              (" " \in Range(Keywords[n]))
                  => \E i \in 1..Len(Tokens) : \E count \in {2, 3} :
                         PhraseAt(Keywords[n], i, count)

\* The characters of a text that are not whitespace, in order.
Ink(text) == SelectSeq(text, LAMBDA c : ~IsWhitespace(c))

\* C19: the paragraphs of a document are pieces of it, each non-empty after
\* trimming and free of blank lines, that together hold all of its
\* characters other than whitespace in document order; and every paragraph
\* is trimmed, equal to its own trim.
C19_Segmentation ==
    (Returns /\ ~isAllWhitespace(pdfText) /\ ~MentionsSummary(question))
        => /\ \A i \in 1..Len(Paragraphs) :
                  /\ includes(pdfText, Paragraphs[i])
                  /\ ~includes(Paragraphs[i], BlankLine)
                  /\ trim(Paragraphs[i]) # <<>>
           /\ Ink(join(Paragraphs, <<>>)) = Ink(pdfText)
           /\ \A i \in 1..Len(Paragraphs) : Paragraphs[i] = trim(Paragraphs[i])

\* The paragraph holds the term, letter for letter without regard to case,
\* after the start of the paragraph, a newline, digits and a dot, a bullet or
\* a star (whitespace may come between), ending as a word and followed by a
\* colon or a whitespace.
LiteralHeading(par, term) ==
    \E t \in 1..(Len(par) + 1) :
        /\ t + Len(term) - 1 <= Len(par)
        /\ toLowerCase(SubSeq(par, t, t + Len(term) - 1)) = toLowerCase(term)
        /\ LET after == t + Len(term)
           IN  /\ after <= Len(par)
               /\ (par[after] = ":" \/ IsWhitespace(par[after]))
               /\ WordBoundary(par, after)
        /\ \E e \in 1..t :
               /\ PrefixEndsBefore(par, e)
               /\ \A k \in e..(t - 1) : IsWhitespace(par[k])

\* C20: the stage-1 heading test accepts a paragraph exactly when the
\* paragraph holds the lower-cased, trimmed question as literal text in
\* heading position; when some paragraph does, those paragraphs are the
\* selection.
C20_HeadingTestLiteral ==
    (Returns /\ variant \in HeadingVariants /\ ~isAllWhitespace(pdfText))
        => /\ \A i \in 1..Len(Paragraphs) :
                  (i \in HeadingHits) <=> LiteralHeading(Paragraphs[i], SearchTerm)
           /\ \A n \in 1..Len(selected) :
                  (HeadingHits # {}) => LiteralHeading(Paragraphs[selected[n]], SearchTerm)

\* What the call of the given variant makes of the arguments in this state,
\* taken by itself.
AloneResult(v) ==
    CASE v = "pages"    -> findRelevantContextPages(pdfText, pageContents, question)
      [] v = "chat"     -> findRelevantContextPages(pdfText, <<>>, question)
      [] v = "heading"  -> findRelevantContextHeading(pdfText, question)
      [] v = "keywords" -> findRelevantContextKeywords(pdfText, question)

CallStep == pc = "idle" /\ pc' \in {"done", "threw"}

LocalOutcomes == {"networkFailure", "notOk", "malformedJson", "emptyPayload"}

\* The keywords and phrases the local answerer takes from the question,
\* the empty text left aside.
QuestionTerms ==
    (Range(keywordsOf(toLowerCase(question))) \cup Range(extractPhrases(toLowerCase(question))))
        \ {<<>>}

\* The paragraph holds one of them, letter case aside.
MentionsQuestion(par) == \E term \in QuestionTerms : includes(toLowerCase(par), term)

\* C22: when the local answerer of the AI service answers a question that
\* does not ask for a summary, it quotes at most 3 paragraphs of the context,
\* each holding a keyword or a phrase of the question; when no paragraph of
\* the context holds any, the answer is the fixed message that nothing
\* specific was found.
C22_LocalAnswer ==
    (/\ pc = "resolved"
     /\ variant = "aiService"
     /\ remote \in LocalOutcomes
     /\ ~MentionsSummary(question))
        => LET pars   == longParagraphsOf(context)
               quoted == localSelection(context, question)
           IN  /\ Len(quoted) <= LocalTopK
               /\ \A n \in 1..Len(quoted) :
                      /\ MentionsQuestion(pars[quoted[n]])
                      /\ includes(answer, pars[quoted[n]])
               /\ (\A i \in 1..Len(pars) : ~MentionsQuestion(pars[i])) => answer = NothingSpecific

\* The keyword variant with the two early checks the other way round: the
\* zero-keyword fallback is tested before the summarization request.
ZeroKeywordsFirst(text, q) ==
    IF isBlank(text) THEN Returned(<<>>, <<>>, <<>>)
    ELSE LET questionLower == trim(toLowerCase(q))
             keywords == extractKeywords(questionLower)
         IN  IF Len(keywords) = 0 THEN Returned(fallbackChunk(text), <<>>, <<>>)
             ELSE IF isSummarization(questionLower)
             THEN Returned(summaryChunk(text), <<>>, <<>>)
             ELSE LET paragraphs == paragraphsOf(text)
                      top == topParagraphs(scoredParagraphs(paragraphs, keywords))
                  IN  IF Len(top) = 0
                      THEN Returned(fallbackChunk(text), <<>>, <<>>)
                      ELSE Returned(join(textsOf(paragraphs, top), BlankLine), <<>>, top)

\* C23: in the keyword variant a question that mentions a summary always
\* has a keyword, and testing the zero-keyword fallback before the
\* summarization request would give the same context and selection.
C23_CheckOrder ==
    (Returns /\ variant = "keywords")
        => /\ MentionsSummary(question) => Keywords # <<>>
           /\ context = ZeroKeywordsFirst(pdfText, question).context
           /\ selected = ZeroKeywordsFirst(pdfText, question).selected

\* A summarization request over a document longer than both caps: the two
\* fallbacks would cut it at different lengths.
C23_Witness ==
    /\ Returns
    /\ variant = "keywords"
    /\ MentionsSummary(question)
    /\ Keywords # <<>>
    /\ Len(pdfText) > FallbackCap
    /\ context = summaryChunk(pdfText)
    /\ context # fallbackChunk(pdfText)

(***************************************************************************)
(* The session-based chat page.  sessions is the list of chat sessions,    *)
(* newest first; sessionDocuments maps a session id to its document;       *)
(* localStorage holds the two persisted items, each item standing for the  *)
(* value its JSON text denotes; inFlight lists the calls suspended at an   *)
(* await, each with what its closure captured.  uuid numbers the           *)
(* identifiers uuidv4 hands out, and serves as the clock of createdAt.     *)
(* A message carries in ask the identifier of the user message of its      *)
(* exchange, 0 for the greeting.                                           *)
(***************************************************************************)

MaxUuid == 3
MaxInFlight == 2
SessionLimit == 20

Pdf == "application/pdf"

WelcomeText ==
    <<"U+1F44B">>
    \o Chars(" Hello! I am AskNoteBot. I can help you understand your document better. What would you like to know?")

ErrorText == Chars("I encountered an error while processing your question. Please try again.")

NewChat == Chars("New Chat")

Message(sender, text, ask) == [sender |-> sender, text |-> text, ask |-> ask]

\* file.name.split('.')[0] || 'New Chat'
sessionNameOf(fileName) ==
    LET dots  == {i \in 1..Len(fileName) : fileName[i] = "."}
        first == IF dots = {} THEN Len(fileName) + 1
                 ELSE CHOOSE x \in dots : \A y \in dots : x <= y
        base  == SubSeq(fileName, 1, first - 1)
    IN  IF base = <<>> THEN NewChat ELSE base

newSession(id, name, documentName) ==
    [id |-> id, name |-> name, documentName |-> documentName,
     messages |-> <<Message("bot", WelcomeText, 0)>>, createdAt |-> id]

idsOf(list) == {list[i].id : i \in 1..Len(list)}

\* list.filter(session => ...), for a test on the id: the sessions whose id
\* is among ids, in their order.
RECURSIVE filter(_, _)
filter(list, ids) ==
    IF list = <<>> THEN <<>>
    ELSE (IF list[1].id \in ids THEN <<list[1]>> ELSE <<>>) \o filter(Tail(list), ids)

\* A slip that appends to the session selected when the answer arrives.
appendToActive(list, id, message) ==
    [i \in 1..Len(list) |->
        IF list[i].id = activeSessionId
        THEN [list[i] EXCEPT !.messages = Append(@, message)]
        ELSE list[i]]

\* prev.map(session => session.id === id ? {...session, messages: [...session.messages, m]} : session)
appendTo(list, id, message) ==
    [i \in 1..Len(list) |->
        IF list[i].id = id
        THEN [list[i] EXCEPT !.messages = Append(@, message)]
        ELSE list[i]]

\* sessionsWithDates.sort((a, b) => b.createdAt.getTime() - a.createdAt.getTime())
RECURSIVE sortNewestFirst(_)
sortNewestFirst(list) ==
    IF list = <<>> THEN <<>>
    ELSE LET x     == list[1]
             rest  == sortNewestFirst(Tail(list))
             k     == Cardinality({i \in 1..Len(rest) : rest[i].createdAt >= x.createdAt})
         IN  SubSeq(rest, 1, k) \o <<x>> \o SubSeq(rest, k + 1, Len(rest))

\* The effect that saves the sessions whenever they change.
saveSessions(storage, list) ==
    IF Len(list) > 0 THEN [storage EXCEPT !.chatSessions = Item(list)] ELSE storage

\* The effect that saves the documents whenever they change.
saveDocuments(storage, docs) ==
    IF DOMAIN docs # {} THEN [storage EXCEPT !.sessionDocuments = Item(docs)] ELSE storage

without(seq, i) == SubSeq(seq, 1, i - 1) \o SubSeq(seq, i + 1, Len(seq))

activeSession == filter(sessions, {activeSessionId})

\* activeSessionId ? sessionDocuments[activeSessionId]?.text || '' : ''
activePdfText ==
    IF activeSessionId # null /\ activeSessionId \in DOMAIN sessionDocuments
    THEN sessionDocuments[activeSessionId].text
    ELSE <<>>

\* The files a user may hand to the uploader: a document, a document whose
\* text is blank and whose name starts with a dot, a file that cannot be
\* read as PDF, and a file of another type.
SessionFiles ==
    { [name |-> Chars("bots.pdf"), type |-> Pdf, texts |-> <<Chars("Bots: a bot")>>, readable |-> TRUE],
      [name |-> Chars(".pdf"), type |-> Pdf, texts |-> <<Chars(" ")>>, readable |-> TRUE],
      [name |-> Chars("torn.pdf"), type |-> Pdf, texts |-> <<>>, readable |-> FALSE],
      [name |-> Chars("notes.txt"), type |-> "text/plain", texts |-> <<Chars("bots")>>, readable |-> TRUE] }

\* What is typed into the input of the chat interface.
SessionInputs == { Chars(" bots "), Chars("("), Chars("  ") }

\* isValidFileType of the document uploader
isValidFileType(fileType) == fileType = Pdf

\* The page is opened, or opened again: the state starts empty, whatever was
\* suspended is gone with the old page, and loadSessions restores what is
\* stored; the saving effects then run on the restored state.
loadSessions ==
    /\ LET savedSessions  == localStorage.chatSessions
           savedDocuments == localStorage.sessionDocuments
           restored == IF savedSessions.present
                       THEN sortNewestFirst(savedSessions.value) ELSE <<>>
           docs     == IF savedSessions.present /\ savedDocuments.present
                       THEN savedDocuments.value ELSE <<>>
       IN  /\ sessions' = restored
           /\ sessionDocuments' = docs
           /\ activeSessionId' = IF Len(restored) > 0 THEN restored[1].id ELSE null
           /\ localStorage' = saveDocuments(saveSessions(localStorage, restored), docs)
    /\ isLoading' = FALSE
    /\ inFlight' = <<>>
    /\ UNCHANGED <<uuid, retrieval, uploader>>

\* createNewSession, from the New Chat button (disabled while loading).
createNewSession ==
    /\ ~isLoading
    /\ uuid <= MaxUuid
    /\ sessions' = <<newSession(uuid, NewChat, <<>>)>> \o sessions
    /\ activeSessionId' = uuid
    /\ uuid' = uuid + 1
    /\ localStorage' = saveSessions(localStorage, sessions')
    /\ UNCHANGED <<sessionDocuments, isLoading, inFlight, retrieval, uploader>>

\* handleFileUpload(file) up to the await of extractTextFromPDF.
handleFileUpload(file) ==
    /\ Len(inFlight) < MaxInFlight
    /\ uuid + Cardinality({i \in 1..Len(inFlight) : inFlight[i].kind = "upload"}) <= MaxUuid
    /\ isLoading' = TRUE
    /\ inFlight' = Append(inFlight, [kind |-> "upload", file |-> file])
    /\ UNCHANGED <<sessions, activeSessionId, sessionDocuments, localStorage, uuid,
                   retrieval, uploader>>

\* handleDrop of the document uploader: the drop zone takes a file whether
\* or not the page is loading.
DocumentUploader_handleDrop ==
    \E file \in SessionFiles :
        /\ isValidFileType(file.type)
        /\ handleFileUpload(file)

\* handleFileSelect of the document uploader, reached through the Browse
\* button, which is disabled while loading.
DocumentUploader_handleFileSelect ==
    /\ ~isLoading
    /\ \E file \in SessionFiles :
          /\ isValidFileType(file.type)
          /\ handleFileUpload(file)

\* handleFileUpload after the await: a new session with the document, or
\* the error toast; in both cases the loading flag is cleared.
handleFileUploadResumes ==
    \E i \in 1..Len(inFlight) :
        /\ inFlight[i].kind = "upload"
        /\ LET file == inFlight[i].file
           IN  IF file.readable
               THEN /\ sessions' = <<newSession(uuid, sessionNameOf(file.name), file.name)>>
                                   \o sessions
                    /\ activeSessionId' = uuid
                    /\ sessionDocuments' =
                          [id \in DOMAIN sessionDocuments \cup {uuid} |->
                              IF id = uuid
                              THEN [text |-> extractTextFromPDF(file.texts).fullText,
                                    name |-> file.name]
                              ELSE sessionDocuments[id]]
                    /\ uuid' = uuid + 1
                    /\ localStorage' = saveDocuments(saveSessions(localStorage, sessions'),
                                                     sessionDocuments')
               ELSE UNCHANGED <<sessions, activeSessionId, sessionDocuments, uuid, localStorage>>
        /\ isLoading' = FALSE
        /\ inFlight' = without(inFlight, i)
        /\ UNCHANGED <<retrieval, uploader>>

\* handleSubmit of the chat interface calling handleSendMessage: the
\* interface is shown for an active session, and sends the trimmed input
\* when it is not empty, the page is not loading and the active session has
\* a document.  handleSendMessage appends the user message; when
\* findRelevantContext throws, the error message follows in the same turn,
\* otherwise the call is suspended at the await of generateAnswer.
handleSendMessage ==
    /\ activeSessionId # null
    /\ ~isLoading
    /\ activePdfText # <<>>
    /\ uuid <= MaxUuid
    /\ Len(inFlight) < MaxInFlight
    /\ \E inputValue \in SessionInputs :
          /\ trim(inputValue) # <<>>
          /\ LET q       == trim(inputValue)
                 asked   == appendTo(sessions, activeSessionId, Message("user", q, uuid))
                 found   == findRelevantContextPages(activePdfText, <<>>, q)
             IN  IF found.threw
                 THEN /\ sessions' = appendTo(asked, activeSessionId,
                                              Message("bot", ErrorText, uuid))
                      /\ isLoading' = FALSE
                      /\ inFlight' = inFlight
                 ELSE /\ sessions' = asked
                      /\ isLoading' = TRUE
                      /\ inFlight' = Append(inFlight,
                            [kind |-> "question", sessionId |-> activeSessionId, ask |-> uuid,
                             answer |-> generateAnswerLocally(found.context, found.pages, q)])
    /\ uuid' = uuid + 1
    /\ localStorage' = saveSessions(localStorage, sessions')
    /\ UNCHANGED <<activeSessionId, sessionDocuments, retrieval, uploader>>

\* A slip that keeps the answer only when its session is still the active
\* one.
handleSendMessageResumesIfActive ==
    \E i \in 1..Len(inFlight) :
        /\ inFlight[i].kind = "question"
        /\ sessions' = IF inFlight[i].sessionId = activeSessionId
                       THEN appendTo(sessions, inFlight[i].sessionId,
                                     Message("bot", inFlight[i].answer, inFlight[i].ask))
                       ELSE sessions
        /\ isLoading' = FALSE
        /\ inFlight' = without(inFlight, i)
        /\ localStorage' = saveSessions(localStorage, sessions')
        /\ UNCHANGED <<activeSessionId, sessionDocuments, uuid, retrieval, uploader>>

\* handleSendMessage after the await: the answer goes to the session that
\* was active when the question was sent, and the loading flag is cleared.
handleSendMessageResumes ==
    \E i \in 1..Len(inFlight) :
        /\ inFlight[i].kind = "question"
        /\ sessions' = appendTo(sessions, inFlight[i].sessionId,
                                Message("bot", inFlight[i].answer, inFlight[i].ask))
        /\ isLoading' = FALSE
        /\ inFlight' = without(inFlight, i)
        /\ localStorage' = saveSessions(localStorage, sessions')
        /\ UNCHANGED <<activeSessionId, sessionDocuments, uuid, retrieval, uploader>>

\* selectSession(sessionId), from a click on an entry of the list
selectSession ==
    /\ \E i \in 1..Len(sessions) :
          /\ sessions[i].id # activeSessionId
          /\ activeSessionId' = sessions[i].id
    /\ UNCHANGED <<sessions, sessionDocuments, localStorage, isLoading, inFlight, uuid,
                   retrieval, uploader>>

\* deleteSession(sessionId), from the delete button of an entry
deleteSession ==
    /\ \E i \in 1..Len(sessions) :
          LET sessionId == sessions[i].id
              others    == filter(sessions, idsOf(sessions) \ {sessionId})
          IN  /\ sessions' = others
              /\ sessionDocuments' = [id \in DOMAIN sessionDocuments \ {sessionId} |->
                                         sessionDocuments[id]]
              /\ activeSessionId' = IF activeSessionId = sessionId
                                    THEN (IF Len(others) > 0 THEN others[1].id ELSE null)
                                    ELSE activeSessionId
              /\ localStorage' = saveDocuments(saveSessions(localStorage, sessions'),
                                               sessionDocuments')
    /\ UNCHANGED <<isLoading, inFlight, uuid, retrieval, uploader>>

\* deleteAllSessions, from the button that is disabled while loading and
\* without sessions
deleteAllSessions ==
    /\ ~isLoading
    /\ Len(sessions) > 0
    /\ sessions' = <<>>
    /\ sessionDocuments' = <<>>
    /\ activeSessionId' = null
    /\ localStorage' = [chatSessions |-> NoItem, sessionDocuments |-> NoItem]
    /\ UNCHANGED <<isLoading, inFlight, uuid, retrieval, uploader>>

AtRest ==
    /\ NothingCalled
    /\ pdfText = <<>>
    /\ pageContents = <<>>
    /\ question = <<>>

\* The page opened for the first time.
InitSessions == AtRest /\ ChatPageClosed /\ UploaderUnused

NextSessions ==
    \/ loadSessions
    \/ createNewSession
    \/ DocumentUploader_handleFileSelect
    \/ DocumentUploader_handleDrop
    \/ handleFileUploadResumes
    \/ handleSendMessage
    \/ handleSendMessageResumes
    \/ selectSession
    \/ deleteSession
    \/ deleteAllSessions

SpecSessions == InitSessions /\ [][NextSessions]_vars

\* The page opened with one session less than the limit shown in the header
\* of the chat history, each created earlier with the New Chat button and
\* restored from localStorage; from there sessions are only added.
EarlierSessions ==
    [n \in 1..(SessionLimit - 1) |-> newSession(100 + SessionLimit - n, NewChat, <<>>)]

InitCrowded ==
    /\ AtRest
    /\ UploaderUnused
    /\ sessions = EarlierSessions
    /\ activeSessionId = EarlierSessions[1].id
    /\ sessionDocuments = <<>>
    /\ localStorage = [chatSessions |-> Item(EarlierSessions), sessionDocuments |-> NoItem]
    /\ isLoading = FALSE
    /\ inFlight = <<>>
    /\ uuid = 1

NextCrowded ==
    \/ createNewSession
    \/ DocumentUploader_handleFileSelect
    \/ DocumentUploader_handleDrop
    \/ handleFileUploadResumes

SpecCrowded == InitCrowded /\ [][NextCrowded]_vars

\* The page while it stays open: what is suspended at an await is resumed,
\* since reading a file and generateAnswer both settle.
NextOpenPage ==
    \/ createNewSession
    \/ DocumentUploader_handleFileSelect
    \/ DocumentUploader_handleDrop
    \/ handleFileUploadResumes
    \/ handleSendMessage
    \/ handleSendMessageResumes
    \/ selectSession
    \/ deleteSession
    \/ deleteAllSessions

SpecOpenPage ==
    /\ InitSessions
    /\ [][NextOpenPage]_vars
    /\ WF_vars(handleFileUploadResumes)
    /\ WF_vars(handleSendMessageResumes)

(***************************************************************************)
(* Properties of the session-based chat page                               *)
(***************************************************************************)

NothingPending == inFlight = <<>>

storedSessions == IF localStorage.chatSessions.present THEN localStorage.chatSessions.value
                  ELSE <<>>

storedDocuments == IF localStorage.sessionDocuments.present
                   THEN localStorage.sessionDocuments.value ELSE <<>>

\* C24: once no call is suspended, the sessions stored under chatSessions
\* are the sessions in memory and the documents stored under
\* sessionDocuments are the documents in memory, so that opening the page
\* again restores no deleted session.
C24_PersistedEqualsMemory ==
    NothingPending => /\ storedSessions = sessions
               /\ storedDocuments = sessionDocuments

\* The exchange a is the user message whose identifier is a and the bot
\* message that answers it.
Exchanges == 1..MaxUuid

asksIn(session, a) ==
    {n \in 1..Len(session.messages) :
        session.messages[n].sender = "user" /\ session.messages[n].ask = a}

repliesIn(session, a) ==
    {n \in 1..Len(session.messages) :
        session.messages[n].sender = "bot" /\ session.messages[n].ask = a}

Asked(list, a) == \E k \in 1..Len(list) : asksIn(list[k], a) # {}

Replied(list, a) == \E k \in 1..Len(list) : repliesIn(list[k], a) # {}

Pending(a) ==
    \E i \in 1..Len(inFlight) : inFlight[i].kind = "question" /\ inFlight[i].ask = a

\* The question a is sent in this step.
QuestionSent(a) == uuid = a /\ ~Asked(sessions, a) /\ Asked(sessions', a)

\* The reply to the question a, pending or sent in this step, is appended.
ReplyArrives(a) ==
    /\ Pending(a) \/ QuestionSent(a)
    /\ ~Replied(sessions, a)
    /\ Replied(sessions', a)

\* The messages a step appends to the k-th session.
appended(k) ==
    SubSeq(sessions'[k].messages, Len(sessions[k].messages) + 1, Len(sessions'[k].messages))

OnlyAppends ==
    /\ Len(sessions') = Len(sessions)
    /\ \A k \in 1..Len(sessions) :
          /\ sessions'[k].id = sessions[k].id
          /\ Len(sessions'[k].messages) >= Len(sessions[k].messages)
          /\ SubSeq(sessions'[k].messages, 1, Len(sessions[k].messages)) = sessions[k].messages

\* C25: the user message of a question goes to the session active when it
\* is sent, and the reply to it, whenever it arrives, is appended to the
\* session holding that user message, whichever session is active by then;
\* the step changes the messages of no other session.
C25_ReplyToAskedSession ==
    [][\A a \in Exchanges :
          /\ QuestionSent(a) =>
                /\ OnlyAppends
                /\ \A k \in 1..Len(sessions) :
                      IF sessions[k].id = activeSessionId
                      THEN /\ appended(k) # <<>>
                           /\ appended(k)[1].sender = "user"
                           /\ appended(k)[1].ask = a
                      ELSE appended(k) = <<>>
          /\ ReplyArrives(a) =>
                /\ OnlyAppends
                /\ \A k \in 1..Len(sessions) :
                      IF asksIn(sessions'[k], a) # {}
                      THEN /\ appended(k) # <<>>
                           /\ appended(k)[Len(appended(k))].sender = "bot"
                           /\ appended(k)[Len(appended(k))].ask = a
                           /\ repliesIn(sessions'[k], a) = {Len(sessions'[k].messages)}
                      ELSE appended(k) = <<>>]_vars

\* The reply to a question is the last message of its session while a
\* session created after the question was sent is the active one.
C25_Witness ==
    \E a \in Exchanges : \E k \in 1..Len(sessions) :
        /\ asksIn(sessions[k], a) # {}
        /\ repliesIn(sessions[k], a) = {Len(sessions[k].messages)}
        /\ sessions[k].messages[Len(sessions[k].messages)].text # ErrorText
        /\ activeSessionId # sessions[k].id
        /\ activeSessionId > a

\* The session holding the user message a holds one bot message for it,
\* after the user message.
AnsweredOnce(a) ==
    \E k \in 1..Len(sessions) :
        /\ asksIn(sessions[k], a) # {}
        /\ Cardinality(repliesIn(sessions[k], a)) = 1
        /\ \A n \in asksIn(sessions[k], a) : \A r \in repliesIn(sessions[k], a) : n < r

AtMostOneReply(a) ==
    /\ Cardinality({k \in 1..Len(sessions) : repliesIn(sessions[k], a) # {}}) <= 1
    /\ \A k \in 1..Len(sessions) :
          /\ Cardinality(repliesIn(sessions[k], a)) <= 1
          /\ repliesIn(sessions[k], a) # {} => asksIn(sessions[k], a) # {}

\* C26: while the page stays open, every user message that handleSendMessage
\* appends to a session is eventually followed by one bot message for it in
\* that session, with isLoading false when it arrives, unless the session is
\* deleted; and no question ever has more than one bot message.
C26_EveryQuestionAnswered ==
    /\ \A a \in Exchanges :
          Asked(sessions, a) ~> (~Asked(sessions, a) \/ (AnsweredOnce(a) /\ ~isLoading))
    /\ [](\A a \in Exchanges : AtMostOneReply(a))

\* A question has its generated answer in the active session and nothing
\* is suspended.
C26_Witness ==
    \E a \in Exchanges : \E k \in 1..Len(sessions) :
        /\ AnsweredOnce(a)
        /\ asksIn(sessions[k], a) # {}
        /\ sessions[k].messages[Len(sessions[k].messages)].sender = "bot"
        /\ sessions[k].messages[Len(sessions[k].messages)].text # ErrorText
        /\ activeSessionId = sessions[k].id
        /\ inFlight = <<>>
        /\ ~isLoading

\* C27: isLoading is true in every state in which an upload or a question
\* is suspended at its await.
C27_LoadingWhilePending == inFlight # <<>> => isLoading

\* C28: activeSessionId is null or the id of a session of the list, and
\* every key of the document map is the id of a session of the list.
C28_IdsInList ==
    /\ activeSessionId = null \/ activeSessionId \in idsOf(sessions)
    /\ DOMAIN sessionDocuments \subseteq idsOf(sessions)

\* C29: the list never holds more sessions than the limit the header of the
\* chat history shows.
C29_AtMostLimit == Len(sessions) <= SessionLimit

(***************************************************************************)
(* The PDF uploader of the index page.  uploaded lists the files that      *)
(* onFileUpload was called with; the page behind it sets isLoading while   *)
(* it reads the file and keeps the text it extracts.                       *)
(***************************************************************************)

MaxUploaded == 3

\* What a drop or the file dialog may carry: no file, one file, several.
FileLists ==
    {<<>>} \cup {<<f>> : f \in SessionFiles}
    \cup {<<f, g>> : f \in {x \in SessionFiles : x.type # Pdf},
                     g \in {x \in SessionFiles : x.type = Pdf /\ x.readable}}

\* handleFileUpload(file) of the index page up to the await.
Index_handleFileUpload(file) ==
    /\ Len(uploaded) < MaxUploaded
    /\ uploaded' = Append(uploaded, file)
    /\ isLoading' = TRUE
    /\ inFlight' = Append(inFlight, [kind |-> "extract", file |-> file])
    /\ UNCHANGED pdfText

\* handleFileUpload of the index page after the await.
Index_handleFileUploadResumes ==
    /\ \E i \in 1..Len(inFlight) :
          /\ inFlight[i].kind = "extract"
          /\ pdfText' = IF inFlight[i].file.readable
                        THEN extractTextFromPDF(inFlight[i].file.texts).fullText
                        ELSE pdfText
          /\ inFlight' = without(inFlight, i)
    /\ isLoading' = FALSE
    /\ UNCHANGED <<isDragging, uploaded, pageContents, question, variant, pc, context, pages,
                   selected, prev, remote, answer, sessions, activeSessionId,
                   sessionDocuments, localStorage, uuid>>

handleDragOver ==
    /\ ~isDragging
    /\ isDragging' = TRUE
    /\ UNCHANGED <<uploaded, retrieval, chatPage>>

handleDragLeave ==
    /\ isDragging
    /\ isDragging' = FALSE
    /\ UNCHANGED <<uploaded, retrieval, chatPage>>

\* handleDrop of the PDF uploader
PDFUploader_handleDrop ==
    /\ isDragging
    /\ isDragging' = FALSE
    /\ \E files \in FileLists :
          IF Len(files) > 0 /\ files[1].type = Pdf
          THEN Index_handleFileUpload(files[1])
          ELSE UNCHANGED <<uploaded, isLoading, inFlight, pdfText>>
    /\ UNCHANGED <<pageContents, question, variant, pc, context, pages, selected, prev,
                   remote, answer, sessions, activeSessionId, sessionDocuments, localStorage,
                   uuid>>

\* handleFileSelect of the PDF uploader, reached through the Browse button,
\* which is disabled while loading: whatever the dialog returns first is
\* handed on.
PDFUploader_handleFileSelect ==
    /\ ~isLoading
    /\ \E files \in FileLists :
          /\ Len(files) > 0
          /\ Index_handleFileUpload(files[1])
    /\ UNCHANGED <<isDragging, pageContents, question, variant, pc, context, pages, selected,
                   prev, remote, answer, sessions, activeSessionId, sessionDocuments,
                   localStorage, uuid>>

InitUploader == AtRest /\ ChatPageClosed /\ UploaderUnused

NextUploader ==
    \/ handleDragOver
    \/ handleDragLeave
    \/ PDFUploader_handleDrop
    \/ PDFUploader_handleFileSelect
    \/ Index_handleFileUploadResumes

SpecUploader == InitUploader /\ [][NextUploader]_vars

\* C30: every file that onFileUpload of the PDF uploader is called with has
\* the type application/pdf, dropped or chosen in the dialog.
C30_OnlyPdf == \A n \in 1..Len(uploaded) : uploaded[n].type = Pdf

====
